---- MODULE Spec2Model ----
(***************************************************************************)
(* Model of degrees.py: the in-memory tables built by load_data, the name  *)
(* lookup person_id_for_name, the Stack/Queue frontier and the breadth-    *)
(* first shortest_path search with its path reconstruction.                *)
(***************************************************************************)
EXTENDS Integers, Sequences, FiniteSets, TLC

VARIABLES
    directory,      \* the three csv files handed to load_data
    row,            \* index of the next csv row load_data reads
    names,          \* global names:  lowered name -> set of person ids
    people,         \* global people: person id -> [name, birth, movies]
    movies,         \* global movies: movie id -> [title, year, stars]
    pc,             \* position of the program
    kind,           \* frontier class in use: "stack" or "queue"
    nodes,          \* every Node object created so far (index = identity)
    frontier,       \* frontier.frontier: list of Node identities
    explored,       \* explored set of shortest_path
    node,           \* Node last returned by frontier.remove() (0 = none)
    todo,           \* neighbours the for loop has not visited yet
    source_id,      \* argument of shortest_path
    target_id,      \* argument of shortest_path
    result,         \* outcome of the last shortest_path call
    prev_result,    \* outcome of the call before it (same arguments)
    calls,          \* number of shortest_path calls started
    lookup_name,    \* argument of the last person_id_for_name call
    lookup_result,  \* outcome of the last person_id_for_name call
    last_op         \* last frontier operation of the frontier harness

vars == <<directory, row, names, people, movies, pc, kind, nodes, frontier,
          explored, node, todo, source_id, target_id, result, prev_result,
          calls, lookup_name, lookup_result, last_op>>

store == <<names, people, movies>>
search == <<nodes, frontier, explored, node, todo, source_id, target_id,
            result, prev_result, calls>>
lookup == <<lookup_name, lookup_result>>

-----------------------------------------------------------------------------
(* Bounds *)

\* largest number of rows of a generated stars.csv
MaxRows == 4
\* largest number of shortest_path calls made with the same arguments
MaxCalls == 2
\* largest number of Node objects the frontier harness adds
MaxAdds == 4

-----------------------------------------------------------------------------
(* Input files *)

None == "None"

\* str.lower() on the names that occur in the input files and at the prompt
Lower(name) ==
    CASE name = "Tom"  -> "tom"
      [] name = "Emma" -> "emma"
      [] name = "EMMA" -> "emma"
      [] name = "Bob"  -> "bob"
      [] name = "A" -> "a"
      [] name = "B" -> "b"
      [] name = "C" -> "c"
      [] name = "D" -> "d"
      [] name = "E" -> "e"
      [] name = "F" -> "f"
      [] OTHER -> name

PersonRow(id, name, birth) == [id |-> id, name |-> name, birth |-> birth]
MovieRow(id, title, year) == [id |-> id, title |-> title, year |-> year]
StarRow(person_id, movie_id) == [person_id |-> person_id, movie_id |-> movie_id]

\* the A-F fixture: groups connect A-B, B-C, C-D, A-E, E-F
FixturePeople ==
    << PersonRow("A", "A", "1950"), PersonRow("B", "B", "1951"),
       PersonRow("C", "C", "1952"), PersonRow("D", "D", "1953"),
       PersonRow("E", "E", "1954"), PersonRow("F", "F", "1955") >>
FixtureMovies ==
    << MovieRow("AB", "ab", "2000"), MovieRow("BC", "bc", "2001"),
       MovieRow("CD", "cd", "2002"), MovieRow("AE", "ae", "2003"),
       MovieRow("EF", "ef", "2004") >>
FixtureStars ==
    << StarRow("A", "AB"), StarRow("B", "AB"), StarRow("B", "BC"),
       StarRow("C", "BC"), StarRow("C", "CD"), StarRow("D", "CD"),
       StarRow("A", "AE"), StarRow("E", "AE"), StarRow("E", "EF"),
       StarRow("F", "EF") >>
Fixture ==
    [people_csv |-> FixturePeople, movies_csv |-> FixtureMovies,
     stars_csv |-> FixtureStars]

\* a ring of shared groups A-B, B-C, C-D, D-E, E-A over the same people (F
\* belongs to no group)
RingMovies ==
    << MovieRow("R1", "r1", "2010"), MovieRow("R2", "r2", "2011"),
       MovieRow("R3", "r3", "2012"), MovieRow("R4", "r4", "2013"),
       MovieRow("R5", "r5", "2014") >>
RingStars ==
    << StarRow("A", "R1"), StarRow("B", "R1"), StarRow("B", "R2"),
       StarRow("C", "R2"), StarRow("C", "R3"), StarRow("D", "R3"),
       StarRow("D", "R4"), StarRow("E", "R4"), StarRow("E", "R5"),
       StarRow("A", "R5") >>
Ring ==
    [people_csv |-> FixturePeople, movies_csv |-> RingMovies,
     stars_csv |-> RingStars]

\* generated directories: three people (two share a lowered name), two
\* movies, and any stars.csv of at most MaxRows rows, rows that reference an
\* id missing from people.csv ("pX") or movies.csv ("mX") included
SmallPeople ==
    << PersonRow("p1", "Tom", "1956"), PersonRow("p2", "Emma", "1990"),
       PersonRow("p3", "EMMA", "1959") >>
SmallMovies ==
    << MovieRow("m1", "one", "1994"), MovieRow("m2", "two", "1995") >>
AllStarRows ==
    << StarRow("p1", "m1"), StarRow("p2", "m1"), StarRow("p3", "m1"),
       StarRow("p1", "m2"), StarRow("p2", "m2"), StarRow("p3", "m2"),
       StarRow("p1", "mX"), StarRow("p2", "mX"), StarRow("p3", "mX"),
       StarRow("pX", "m1"), StarRow("pX", "m2"), StarRow("pX", "mX") >>

SetMin(S) == CHOOSE x \in S : \A y \in S : x <= y

RECURSIVE PickRows(_)
\* the rows of AllStarRows with index in S, in file order
PickRows(S) ==
    IF S = {} THEN <<>>
    ELSE <<AllStarRows[SetMin(S)]>> \o PickRows(S \ {SetMin(S)})

Directories ==
    {Fixture, Ring} \cup
    { [people_csv |-> SmallPeople, movies_csv |-> SmallMovies,
       stars_csv |-> PickRows(S)] :
         S \in {T \in SUBSET (1..Len(AllStarRows)) : Cardinality(T) <= MaxRows} }

\* identifiers a caller may pass to shortest_path
CallIds == {"p1", "p2", "p3", "pX", "A", "D", "F", "unknown"}
\* names typed at the "Name: " prompt
TypedNames == {"Tom", "tom", "Emma", "emma", "Bob", "A", "a"}
\* ids typed at the "Enter ID number: " prompt
TypedIds == {"p2", "p3", "p1", "zz"}

-----------------------------------------------------------------------------
(* load_data *)

NoResult == [kind |-> "pending", path |-> <<>>]
NoLookup == [kind |-> "pending", id |-> None]

Init ==
    /\ directory \in Directories
    /\ row = 1
    /\ names = <<>>
    /\ people = <<>>
    /\ movies = <<>>
    /\ pc = "load_people"
    /\ kind = "queue"
    /\ nodes = <<>>
    /\ frontier = <<>>
    /\ explored = {}
    /\ node = 0
    /\ todo = {}
    /\ source_id = None
    /\ target_id = None
    /\ result = NoResult
    /\ prev_result = NoResult
    /\ calls = 0
    /\ lookup_name = None
    /\ lookup_result = NoLookup
    /\ last_op = None

\* d extended or overwritten at key k
Put(d, k, v) == [x \in (DOMAIN d) \cup {k} |-> IF x = k THEN v ELSE d[x]]

\* one row of people.csv (lines 110-119)
LoadPeopleRow ==
    /\ pc = "load_people"
    /\ row <= Len(directory.people_csv)
    /\ LET r == directory.people_csv[row]
           key == Lower(r.name)
       IN /\ people' = Put(people, r.id,
                           [name |-> r.name, birth |-> r.birth, movies |-> {}])
          /\ names' = IF key \notin DOMAIN names
                      THEN Put(names, key, {r.id})
                      ELSE [names EXCEPT ![key] = @ \cup {r.id}]
    /\ row' = row + 1
    /\ UNCHANGED <<directory, movies, pc, kind, search, lookup, last_op>>

\* people.csv exhausted: open movies.csv (lines 121-123)
LoadPeopleDone ==
    /\ pc = "load_people"
    /\ row > Len(directory.people_csv)
    /\ pc' = "load_movies"
    /\ row' = 1
    /\ UNCHANGED <<directory, store, kind, search, lookup, last_op>>

\* one row of movies.csv (lines 124-129)
LoadMoviesRow ==
    /\ pc = "load_movies"
    /\ row <= Len(directory.movies_csv)
    /\ LET r == directory.movies_csv[row]
       IN movies' = Put(movies, r.id,
                        [title |-> r.title, year |-> r.year, stars |-> {}])
    /\ row' = row + 1
    /\ UNCHANGED <<directory, names, people, pc, kind, search, lookup, last_op>>

\* movies.csv exhausted: open stars.csv (lines 131-133)
LoadMoviesDone ==
    /\ pc = "load_movies"
    /\ row > Len(directory.movies_csv)
    /\ pc' = "load_stars"
    /\ row' = 1
    /\ UNCHANGED <<directory, store, kind, search, lookup, last_op>>

\* the try block of lines 135-139 on one row: the tables after it.  The
\* first statement raises KeyError for an unknown person before anything is
\* written; the second raises for an unknown movie after the first has
\* already added the movie id to the person's set.
StarsRowEffect(p, m, r) ==
    IF r.person_id \notin DOMAIN p
    THEN [people |-> p, movies |-> m]
    ELSE LET p1 == [p EXCEPT ![r.person_id].movies = @ \cup {r.movie_id}]
         IN IF r.movie_id \notin DOMAIN m
            THEN [people |-> p1, movies |-> m]
            ELSE [people |-> p1,
                  movies |-> [m EXCEPT ![r.movie_id].stars = @ \cup {r.person_id}]]

\* one row of stars.csv (lines 134-139)
LoadStarsRow ==
    /\ pc = "load_stars"
    /\ row <= Len(directory.stars_csv)
    /\ LET e == StarsRowEffect(people, movies, directory.stars_csv[row])
       IN /\ people' = e.people
          /\ movies' = e.movies
    /\ row' = row + 1
    /\ UNCHANGED <<directory, names, pc, kind, search, lookup, last_op>>

\* stars.csv exhausted: load_data returns (line 240)
LoadStarsDone ==
    /\ pc = "load_stars"
    /\ row > Len(directory.stars_csv)
    /\ pc' = "idle"
    /\ UNCHANGED <<directory, row, store, kind, search, lookup, last_op>>

LoadData ==
    \/ LoadPeopleRow
    \/ LoadPeopleDone
    \/ LoadMoviesRow
    \/ LoadMoviesDone
    \/ LoadStarsRow
    \/ LoadStarsDone

Loaded == pc \notin {"load_people", "load_movies", "load_stars"}

-----------------------------------------------------------------------------
(* person_id_for_name *)

\* person_id_for_name(name), with typed the answer to "Enter ID number: "
\* (lines 151-167): the outcome and the names table it leaves behind.
\* set.pop() takes the returned id out of names[name], and raises KeyError
\* on a set that an earlier call has emptied.
PersonIdForName(name, typed) ==
    LET key == Lower(name)
    IN IF key \notin DOMAIN names
       THEN {[out |-> [kind |-> "none", id |-> None], names |-> names]}
       ELSE IF Cardinality(names[key]) > 1
       THEN IF typed \in names[key]
            THEN {[out |-> [kind |-> "id", id |-> typed], names |-> names]}
            ELSE {[out |-> [kind |-> "none", id |-> None], names |-> names]}
       ELSE IF names[key] = {}
       THEN {[out |-> [kind |-> "KeyError", id |-> None], names |-> names]}
       ELSE {[out |-> [kind |-> "id", id |-> x],
              names |-> [names EXCEPT ![key] = @ \ {x}]] : x \in names[key]}

\* a call of person_id_for_name after load_data (lines 242-250)
LookupName ==
    /\ pc = "idle"
    /\ \E name \in TypedNames, typed \in TypedIds :
         \E r \in PersonIdForName(name, typed) :
            /\ lookup_name' = name
            /\ lookup_result' = r.out
            /\ names' = r.names
    /\ UNCHANGED <<directory, row, people, movies, pc, kind, search, last_op>>

-----------------------------------------------------------------------------
(* Node, StackFrontier, QueueFrontier *)

\* Node.__init__ (lines 34-37); parent is a Node identity, 0 for None
Node(state, parent, action) ==
    [state |-> state, parent |-> parent, action |-> action]

\* add that puts the node at the front of the list
AddFront(f, n) == <<n>> \o f

\* StackFrontier.add (lines 50-51)
Add(f, n) == Append(f, n)

\* contains_state that compares node.action, not node.state, with the state
ContainsStateByAction(f, state) ==
    \E i \in 1..Len(f) : nodes[f[i]].action = state

\* StackFrontier.contains_state (lines 53-54)
ContainsState(f, state) == \E i \in 1..Len(f) : nodes[f[i]].state = state

\* empty that also reports a frontier of one node as empty
EmptyOffByOne(f) == Len(f) <= 1

\* StackFrontier.empty (lines 56-57)
Empty(f) == Len(f) = 0

\* StackFrontier.remove that returns the last node but slices off the first
StackRemoveWrongSlice(f) ==
    [node |-> f[Len(f)], frontier |-> SubSeq(f, 2, Len(f))]

\* StackFrontier.remove on a non-empty frontier (lines 63-65)
StackRemove(f) ==
    [node |-> f[Len(f)], frontier |-> SubSeq(f, 1, Len(f) - 1)]

\* QueueFrontier.remove that returns the first node and leaves it in the list
QueueRemoveKeeps(f) ==
    [node |-> f[1], frontier |-> f]

\* QueueFrontier.remove without the override: the inherited stack removal
QueueRemoveInherited(f) ==
    [node |-> f[Len(f)], frontier |-> SubSeq(f, 1, Len(f) - 1)]

\* QueueFrontier.remove on a non-empty frontier (lines 78-80)
QueueRemove(f) ==
    [node |-> f[1], frontier |-> SubSeq(f, 2, Len(f))]

\* remove() dispatched on the class of the frontier
Remove(k, f) == IF k = "stack" THEN StackRemove(f) ELSE QueueRemove(f)

-----------------------------------------------------------------------------
(* neighbors_for_person *)

\* neighbors_for_person(person_id) (lines 179-184): KeyError when person_id
\* is not a key of people or one of its movie ids is not a key of movies,
\* otherwise the set of (movie_id, person_id) pairs
NeighborsForPerson(person_id) ==
    IF person_id \notin DOMAIN people
    THEN [raised |-> TRUE, neighbors |-> {}]
    ELSE LET movie_ids == people[person_id].movies
         IN IF \E movie_id \in movie_ids : movie_id \notin DOMAIN movies
            THEN [raised |-> TRUE, neighbors |-> {}]
            ELSE [raised |-> FALSE,
                  neighbors |-> UNION { {<<movie_id, p>> : p \in movies[movie_id].stars} :
                                         movie_id \in movie_ids }]

-----------------------------------------------------------------------------
(* shortest_path *)

RECURSIVE Reverse(_)
\* list.reverse() (line 228)
Reverse(s) == IF s = <<>> THEN <<>> ELSE Reverse(Tail(s)) \o <<Head(s)>>

RECURSIVE WalkParentsWithRoot(_, _)
\* the walk of lines 225-227 that does not stop at the root
WalkParentsWithRoot(ns, child) ==
    IF child = 0 THEN <<>>
    ELSE <<<<ns[child].action, ns[child].state>>>>
            \o WalkParentsWithRoot(ns, ns[child].parent)

RECURSIVE WalkParents(_, _)
\* the while loop of lines 225-227: (action, state) from child up to, and
\* excluding, the root
WalkParents(ns, child) ==
    IF ns[child].parent = 0 THEN <<>>
    ELSE <<<<ns[child].action, ns[child].state>>>>
            \o WalkParents(ns, ns[child].parent)

\* lines 224-229 without path.reverse()
ReconstructPathUnreversed(ns, child) == WalkParents(ns, child)

\* lines 224-229: the path handed back for the goal node child
ReconstructPath(ns, child) == Reverse(WalkParents(ns, child))

\* lines 198-203: start node, frontier and explored set of a fresh call
StartSearch(s, t) ==
    /\ source_id' = s
    /\ target_id' = t
    /\ nodes' = <<Node(s, 0, None)>>
    /\ frontier' = Add(<<>>, 1)
    /\ explored' = {}
    /\ node' = 0
    /\ todo' = {}
    /\ result' = NoResult
    /\ calls' = calls + 1
    /\ pc' = "loop"

\* shortest_path(source_id, target_id) is called (line 252)
Call ==
    /\ pc = "idle"
    /\ \E s \in CallIds, t \in CallIds : StartSearch(s, t)
    /\ prev_result' = NoResult
    /\ UNCHANGED <<directory, row, store, kind, lookup, last_op>>

\* shortest_path is called once more with the same arguments
CallAgain ==
    /\ pc = "returned"
    /\ calls < MaxCalls
    /\ StartSearch(source_id, target_id)
    /\ prev_result' = result
    /\ UNCHANGED <<directory, row, store, kind, lookup, last_op>>

\* lines 209-210: nothing left in the frontier
LoopEmpty ==
    /\ pc = "loop"
    /\ Empty(frontier)
    /\ result' = [kind |-> "none", path |-> <<>>]
    /\ pc' = "returned"
    /\ UNCHANGED <<directory, row, store, kind, nodes, frontier, explored, node,
                   todo, source_id, target_id, prev_result, calls, lookup, last_op>>

\* lines 213-217 with a neighbors_for_person that consumes the person's
\* movie set while it iterates (movie_ids.pop())
DequeueDraining ==
    /\ pc = "loop"
    /\ ~Empty(frontier)
    /\ LET r == Remove(kind, frontier)
           n == NeighborsForPerson(nodes[r.node].state)
       IN /\ node' = r.node
          /\ frontier' = r.frontier
          /\ explored' = explored \cup {nodes[r.node].state}
          /\ people' = IF nodes[r.node].state \in DOMAIN people
                       THEN [people EXCEPT ![nodes[r.node].state].movies = {}]
                       ELSE people
          /\ IF n.raised
             THEN /\ result' = [kind |-> "KeyError", path |-> <<>>]
                  /\ pc' = "returned"
                  /\ todo' = {}
             ELSE /\ result' = result
                  /\ todo' = n.neighbors
                  /\ pc' = IF n.neighbors = {} THEN "loop" ELSE "for"
    /\ UNCHANGED <<directory, row, names, movies, kind, nodes, source_id,
                   target_id, prev_result, calls, lookup, last_op>>

\* lines 213-217 without explored.add(node.state)
DequeueUnmarked ==
    /\ pc = "loop"
    /\ ~Empty(frontier)
    /\ LET r == Remove(kind, frontier)
           n == NeighborsForPerson(nodes[r.node].state)
       IN /\ node' = r.node
          /\ frontier' = r.frontier
          /\ explored' = explored
          /\ IF n.raised
             THEN /\ result' = [kind |-> "KeyError", path |-> <<>>]
                  /\ pc' = "returned"
                  /\ todo' = {}
             ELSE /\ result' = result
                  /\ todo' = n.neighbors
                  /\ pc' = IF n.neighbors = {} THEN "loop" ELSE "for"
    /\ UNCHANGED <<directory, row, store, kind, nodes, source_id, target_id,
                   prev_result, calls, lookup, last_op>>

\* lines 213-217: remove a node, mark it explored, ask for its neighbours
Dequeue ==
    /\ pc = "loop"
    /\ ~Empty(frontier)
    /\ LET r == Remove(kind, frontier)
           n == NeighborsForPerson(nodes[r.node].state)
       IN /\ node' = r.node
          /\ frontier' = r.frontier
          /\ explored' = explored \cup {nodes[r.node].state}
          /\ IF n.raised
             THEN /\ result' = [kind |-> "KeyError", path |-> <<>>]
                  /\ pc' = "returned"
                  /\ todo' = {}
             ELSE /\ result' = result
                  /\ todo' = n.neighbors
                  /\ pc' = IF n.neighbors = {} THEN "loop" ELSE "for"
    /\ UNCHANGED <<directory, row, store, kind, nodes, source_id, target_id,
                   prev_result, calls, lookup, last_op>>

\* lines 217-232: one pass of the for loop, on any neighbour not yet visited
\* (a set is iterated in no particular order)
Visit ==
    /\ pc = "for"
    /\ \E pair \in todo :
         LET movie_id == pair[1]
             person_id == pair[2]
             child == Len(nodes) + 1
             ns == Append(nodes, Node(person_id, node, movie_id))
             rest == todo \ {pair}
         IN IF ~ContainsState(frontier, person_id) /\ person_id \notin explored
            THEN /\ nodes' = ns
                 /\ IF person_id = target_id
                    THEN /\ result' = [kind |-> "path",
                                       path |-> ReconstructPath(ns, child)]
                         /\ pc' = "returned"
                         /\ UNCHANGED <<frontier, todo>>
                    ELSE /\ frontier' = Add(frontier, child)
                         /\ todo' = rest
                         /\ pc' = IF rest = {} THEN "loop" ELSE "for"
                         /\ result' = result
            ELSE /\ todo' = rest
                 /\ pc' = IF rest = {} THEN "loop" ELSE "for"
                 /\ UNCHANGED <<nodes, frontier, result>>
    /\ UNCHANGED <<directory, row, store, kind, explored, node, source_id,
                   target_id, prev_result, calls, lookup, last_op>>

ShortestPath ==
    \/ Call
    \/ CallAgain
    \/ LoopEmpty
    \/ Dequeue
    \/ Visit

Next ==
    \/ LoadData
    \/ ShortestPath

Spec == Init /\ [][Next]_vars

\* the program is one thread that runs until it ends: a step that can be
\* taken is taken
LiveSpec == Init /\ [][Next]_vars /\ WF_vars(Next)

-----------------------------------------------------------------------------
(* Name lookups after load_data *)

NextNames ==
    \/ LoadData
    \/ LookupName

SpecNames == Init /\ [][NextNames]_vars

-----------------------------------------------------------------------------
(* A frontier driven by arbitrary interleaved add and remove calls *)

\* states carried by the nodes the harness adds
HarnessStates == {"p1", "p2"}

InitFrontier ==
    /\ directory = [people_csv |-> <<>>, movies_csv |-> <<>>, stars_csv |-> <<>>]
    /\ row = 1
    /\ names = <<>>
    /\ people = <<>>
    /\ movies = <<>>
    /\ pc = "harness"
    /\ kind \in {"stack", "queue"}
    /\ nodes = <<>>
    /\ frontier = <<>>
    /\ explored = {}
    /\ node = 0
    /\ todo = {}
    /\ source_id = None
    /\ target_id = None
    /\ result = NoResult
    /\ prev_result = NoResult
    /\ calls = 0
    /\ lookup_name = None
    /\ lookup_result = NoLookup
    /\ last_op = None

\* frontier.add(node) with a new Node (lines 50-51)
FrontierAdd ==
    /\ pc = "harness"
    /\ Len(nodes) < MaxAdds
    /\ \E s \in HarnessStates :
         /\ nodes' = Append(nodes, Node(s, 0, None))
         /\ frontier' = Add(frontier, Len(nodes) + 1)
    /\ last_op' = "add"
    /\ UNCHANGED <<directory, row, store, pc, kind, explored, node, todo,
                   source_id, target_id, result, prev_result, calls, lookup>>

\* frontier.remove() on an empty frontier (lines 60-61, 75-76)
FrontierRemoveEmpty ==
    /\ pc = "harness"
    /\ Empty(frontier)
    /\ last_op' = "empty frontier"
    /\ UNCHANGED <<directory, row, store, pc, kind, search, lookup>>

\* frontier.remove() on a non-empty frontier (lines 62-65, 77-80)
FrontierRemove ==
    /\ pc = "harness"
    /\ ~Empty(frontier)
    /\ LET r == Remove(kind, frontier)
       IN /\ node' = r.node
          /\ frontier' = r.frontier
    /\ last_op' = "remove"
    /\ UNCHANGED <<directory, row, store, pc, kind, nodes, explored, todo,
                   source_id, target_id, result, prev_result, calls, lookup>>

NextFrontier ==
    \/ FrontierAdd
    \/ FrontierRemoveEmpty
    \/ FrontierRemove

SpecFrontier == InitFrontier /\ [][NextFrontier]_vars

-----------------------------------------------------------------------------
(* The graph of the loaded store, computed independently of the search *)

Known(id) == id \in DOMAIN people

\* the entities one shared group away from p
Adjacent(p) ==
    {q \in DOMAIN people :
        \E m \in DOMAIN movies : p \in movies[m].stars /\ q \in movies[m].stars}

RECURSIVE Within(_, _)
\* the entities at most k hops from s
Within(s, k) ==
    IF k = 0 THEN {s}
    ELSE LET w == Within(s, k - 1) IN w \cup UNION {Adjacent(p) : p \in w}

Reachable(s, t) == t \in Within(s, Cardinality(DOMAIN people))

\* the least number of hops from s to t, for t reachable from s
Distance(s, t) ==
    SetMin({k \in 0..Cardinality(DOMAIN people) : t \in Within(s, k)})

Returned == pc = "returned"

\* the entity of the i-th pair of a path, the source for i = 0
EntityAt(path, i) == IF i = 0 THEN source_id ELSE path[i][2]

-----------------------------------------------------------------------------
(* Claims *)

\* C1: for every loaded store and every pair of known entities where target
\* is reachable from source, shortest_path returns a sequence whose length is
\* the true graph distance between them.
C1_ShortestLength ==
    (Returned /\ Known(source_id) /\ Known(target_id)
       /\ Reachable(source_id, target_id))
    => (result.kind = "path"
        /\ Len(result.path) = Distance(source_id, target_id))

\* C2: for every pair of known entities with no connecting chain of shared
\* groups, shortest_path returns None and never ends in an exception, on
\* every store load_data can produce.
C2_DisconnectedIsNone ==
    (Returned /\ Known(source_id) /\ Known(target_id)
       /\ ~Reachable(source_id, target_id))
    => result.kind = "none"

\* C3: for every known entity x, shortest_path(x, x) returns the empty
\* sequence.
C3_SelfIsEmptyPath ==
    (Returned /\ Known(source_id) /\ source_id = target_id)
    => (result.kind = "path" /\ result.path = <<>>)

\* C4: with a source or target unknown to the store, shortest_path reports a
\* lookup failure, distinguishable from "no path", without having dequeued
\* or expanded any node.
C4_UnknownIdFailsBeforeSearch ==
    (Returned /\ (~Known(source_id) \/ ~Known(target_id)))
    => (result.kind = "KeyError" /\ explored = {})

\* C5: every non-empty sequence returned is a source-to-target chain in hop
\* order: the group of each pair holds the entity of the pair before it (the
\* source for the first) and the entity of the pair itself, and the last
\* entity is target.
C5_ReturnedPathIsChain ==
    (Returned /\ result.kind = "path" /\ result.path # <<>>)
    => /\ \A i \in 1..Len(result.path) :
            /\ result.path[i][1] \in DOMAIN movies
            /\ EntityAt(result.path, i - 1) \in movies[result.path[i][1]].stars
            /\ EntityAt(result.path, i) \in movies[result.path[i][1]].stars
       /\ EntityAt(result.path, Len(result.path)) = target_id

\* a path of at least three hops has been returned
C5_Witness ==
    Returned /\ result.kind = "path" /\ Len(result.path) >= 3

\* C6: two invocations with the same (source, target) on the same unmodified
\* store return identical results, whatever order the neighbour sets are
\* iterated in.
C6_SameResultTwice ==
    (Returned /\ calls >= 2) => result = prev_result

\* C7: no returned sequence holds the same entity in two of its pairs, and
\* for source /= target none of its pairs carries the source.
C7_NoRepeatedEntity ==
    (Returned /\ result.kind = "path")
    => /\ \A i, j \in 1..Len(result.path) :
            i # j => result.path[i][2] # result.path[j][2]
       /\ source_id # target_id
            => \A i \in 1..Len(result.path) : result.path[i][2] # source_id

\* a path of two or more pairs between distinct entities has been returned
C7_Witness ==
    /\ Returned
    /\ result.kind = "path"
    /\ Len(result.path) >= 2
    /\ source_id # target_id

\* the elements of sequence f
Elements(f) == {f[i] : i \in 1..Len(f)}

\* f without its element x, the others in their order
Without(f, x) == SelectSeq(f, LAMBDA y : y # x)

\* C8: each remove on a non-empty QueueFrontier returns the earliest-added
\* node not yet removed and takes exactly that node out, the others keeping
\* their relative order.  (Every node is added once, when it is created, so
\* the earliest-added node is the one with the least identity.)
C8_QueueIsFIFO ==
    [][ (kind = "queue" /\ last_op' = "remove" /\ frontier' # frontier)
        => /\ node' = SetMin(Elements(frontier))
           /\ frontier' = Without(frontier, node') ]_vars

\* a queue removal that followed earlier removals and left nodes waiting
C8_Witness ==
    /\ kind = "queue"
    /\ last_op = "remove"
    /\ node = 2
    /\ Len(frontier) = 2

\* the loaded entities that carry name, case ignored
Carriers(name) ==
    {p \in DOMAIN people : Lower(people[p].name) = Lower(name)}

\* C9: for a name exactly one loaded entity carries, person_id_for_name
\* returns that entity's identifier on every call, in any sequence of lookups
\* after load_data.
C9_UniqueNameResolves ==
    (pc = "idle" /\ lookup_name # None
       /\ Cardinality(Carriers(lookup_name)) = 1)
    => (lookup_result.kind = "id" /\ lookup_result.id \in Carriers(lookup_name))

\* C10: a membership row referencing an unknown entity or group id leaves the
\* store untouched: after load_data, m is in people[p].movies exactly when p
\* is in movies[m].stars, and every id in either set is a key of its table.
C10_MembershipConsistent ==
    pc = "idle"
    => /\ \A p \in DOMAIN people : people[p].movies \subseteq DOMAIN movies
       /\ \A m \in DOMAIN movies : movies[m].stars \subseteq DOMAIN people
       /\ \A p \in DOMAIN people : \A m \in DOMAIN movies :
            m \in people[p].movies <=> p \in movies[m].stars

-----------------------------------------------------------------------------
(* Claims about the search loop *)

\* a call of shortest_path is under way or has just ended
InSearch == pc \in {"loop", "for", "returned"}

\* the states of the nodes held in the frontier
FrontierStates == {nodes[n].state : n \in Elements(frontier)}

\* C11: at every point of a shortest_path run no two nodes in the frontier
\* have the same state, and no state in the frontier is in the explored set
\* (so an explored state is never in the frontier again).
C11_FrontierDistinctUnexplored ==
    InSearch
    => /\ \A i, j \in 1..Len(frontier) :
            i # j => nodes[frontier[i]].state # nodes[frontier[j]].state
       /\ FrontierStates \cap explored = {}

\* the frontier holds two nodes while some state has been explored
C11_Witness ==
    pc = "for" /\ Len(frontier) >= 2 /\ explored # {}

\* C12: during one shortest_path run the explored set only grows, and the
\* state of a node being dequeued is never already in the explored set.
C12_ExploredGrowsOncePerEntity ==
    [][ /\ calls' = calls => explored \subseteq explored'
        /\ (pc = "loop" /\ ~Empty(frontier))
             => nodes[node'].state \notin explored ]_vars

\* three entities have been dequeued and expanded in one run
C12_Witness ==
    InSearch /\ Cardinality(explored) >= 3

\* the nodes that frontier.remove() has handed to the loop: every node
\* created was added to the frontier, except a goal node, which is returned
\* at once
Dequeued ==
    {n \in 1..Len(nodes) :
        /\ n \notin Elements(frontier)
        /\ ~(result.kind = "path" /\ n = Len(nodes))}

\* C13: on every finite store and for every pair of known entities,
\* shortest_path eventually returns a path or "no path", and its loop
\* dequeues at most one node per entity of the store.
C13_ReturnsPathOrNone ==
    /\ (pc = "loop" /\ Known(source_id) /\ Known(target_id))
         ~> (Returned /\ result.kind \in {"path", "none"})
    /\ [](InSearch /\ Known(source_id) /\ Known(target_id)
            => /\ \A m, n \in Dequeued :
                    m # n => nodes[m].state # nodes[n].state
               /\ \A n \in Dequeued : Known(nodes[n].state))

RECURSIVE Depth(_)
\* the number of parent links from node n to the root
Depth(n) == IF nodes[n].parent = 0 THEN 0 ELSE 1 + Depth(nodes[n].parent)

\* C14: the search is breadth-first: the depth of every node created is the
\* true graph distance of its state from source, and nodes are dequeued in
\* non-decreasing depth (entities at distance k before those at k+1).
C14_BreadthFirstOrder ==
    /\ [](InSearch
            => \A n \in 1..Len(nodes) :
                  Depth(n) = Distance(source_id, nodes[n].state))
    /\ [][ (pc = "loop" /\ ~Empty(frontier) /\ node # 0)
             => Depth(node') >= Depth(node) ]_vars

\* a node three links below the root has been dequeued after its ancestors
C14_Witness ==
    InSearch /\ node # 0 /\ Depth(node) >= 3 /\ Cardinality(explored) >= 4

\* C15: shortest_path leaves the entity, group and name tables unchanged on
\* every outcome, and every call starts from a fresh frontier and explored
\* set, so a search does not depend on the searches run before it.
C15_SearchLeavesStore ==
    [][ Loaded
        => /\ <<names, people, movies>>' = <<names, people, movies>>
           /\ calls' # calls
                => /\ explored' = {}
                   /\ Len(nodes') = 1
                   /\ frontier' = <<1>> ]_vars

\* a second search has ended with a path of two or more hops
C15_Witness ==
    Returned /\ calls = 2 /\ result.kind = "path" /\ Len(result.path) >= 2

\* C16: person_id_for_name leaves the name index unchanged on every
\* outcome: after any sequence of lookups each name still maps to exactly
\* the identifiers of the loaded entities that carry it.
C16_LookupLeavesIndex ==
    pc = "idle"
    => /\ \A p \in DOMAIN people : Lower(people[p].name) \in DOMAIN names
       /\ \A key \in DOMAIN names :
            names[key] = {p \in DOMAIN people : Lower(people[p].name) = key}

\* the pairs (g, p) with g a group that holds e and p a member of g
MemberPairs(e) ==
    {pair \in (DOMAIN movies) \X (DOMAIN people) :
        /\ e \in movies[pair[1]].stars
        /\ pair[2] \in movies[pair[1]].stars}

\* C17: for every known entity e, neighbors_for_person(e) returns exactly
\* the pairs (g, p) with g a group of e and p a member of g, the pairs (g, e)
\* included; the search never makes a node out of such a self pair.
C17_NeighborsExact ==
    (pc = "idle" \/ InSearch)
    => /\ \A e \in DOMAIN people :
            /\ ~NeighborsForPerson(e).raised
            /\ NeighborsForPerson(e).neighbors = MemberPairs(e)
       /\ \A n \in 1..Len(nodes) :
            nodes[n].parent # 0 => nodes[n].state # nodes[nodes[n].parent].state

RECURSIVE WithinAvoiding(_, _, _)
\* the entities at most k hops from q along chains that never pass through s
WithinAvoiding(q, s, k) ==
    IF k = 0 THEN {q}
    ELSE LET w == WithinAvoiding(q, s, k - 1)
         IN w \cup (UNION {Adjacent(p) : p \in w} \ {s})

\* s lies on a cycle of shared groups: it shares two different groups with
\* one neighbour, or two of its neighbours are linked by a chain that does
\* not pass through s
OnCycle(s) ==
    \/ \E q \in Adjacent(s) \ {s} : \E g, h \in DOMAIN movies :
          /\ g # h
          /\ {s, q} \subseteq movies[g].stars
          /\ {s, q} \subseteq movies[h].stars
    \/ \E q, t \in Adjacent(s) \ {s} :
          /\ q # t
          /\ t \in WithinAvoiding(q, s, Cardinality(DOMAIN people))

\* C18 (as stated): a search from an entity on a cycle of shared groups back
\* to itself returns a non-empty path that leads through the cycle.
C18_CyclePathReturned ==
    (Returned /\ source_id = target_id /\ Known(source_id) /\ OnCycle(source_id))
    => (result.kind = "path" /\ result.path # <<>>)

\* C18 (amended): when source equals target and the source lies on a cycle
\* of shared groups, shortest_path never returns a path, through the cycle
\* or otherwise: the call ends with None or with a KeyError.
C18_SelfSearchNeverPath ==
    (Returned /\ source_id = target_id /\ Known(source_id) /\ OnCycle(source_id))
    => result.kind \in {"none", "KeyError"}

\* the search from A back to A on the ring has ended with None after the
\* whole ring was explored
C18_Witness ==
    /\ Returned
    /\ directory = Ring
    /\ source_id = "A"
    /\ target_id = "A"
    /\ OnCycle("A")
    /\ result.kind = "none"
    /\ explored = {"A", "B", "C", "D", "E"}

SetMax(S) == CHOOSE x \in S : \A y \in S : x >= y

\* C19: under both disciplines remove() on an empty frontier fails with
\* "empty frontier" and leaves the frontier empty; the frontier always holds
\* exactly the nodes added and not yet removed, each once, and empty() is
\* true exactly when there are none.
C19_FrontierHoldsPending ==
    /\ [](pc = "harness"
            => /\ Empty(frontier) <=> Elements(frontier) = {}
               /\ Cardinality(Elements(frontier)) = Len(frontier))
    /\ [][ pc = "harness"
           => /\ (frontier = <<>> /\ nodes' = nodes)
                   => (last_op' = "empty frontier" /\ frontier' = <<>>)
              /\ nodes' # nodes
                   => Elements(frontier') = Elements(frontier) \cup {Len(nodes')}
              /\ (frontier # <<>> /\ nodes' = nodes)
                   => /\ last_op' = "remove"
                      /\ node' \in Elements(frontier)
                      /\ Elements(frontier') = Elements(frontier) \ {node'} ]_vars

\* a stack emptied by removes has refused one more remove
C19_Witness ==
    /\ kind = "stack"
    /\ last_op = "empty frontier"
    /\ Len(nodes) >= 2
    /\ frontier = <<>>

\* C20: each remove on a non-empty StackFrontier returns the most recently
\* added node not yet removed and takes exactly that node out.  (Every node
\* is added once, when it is created, so the most recently added node is the
\* one with the greatest identity.)
C20_StackIsLIFO ==
    [][ (kind = "stack" /\ last_op' = "remove" /\ frontier' # frontier)
        => /\ node' = SetMax(Elements(frontier))
           /\ frontier' = Without(frontier, node') ]_vars

\* adds and removes interleaved: 2 was removed before 3 and 4 were added,
\* and 4 has just been removed
C20_Witness ==
    /\ kind = "stack"
    /\ last_op = "remove"
    /\ node = 4
    /\ frontier = <<1, 3>>

====
